---- MODULE Spec2Model ----
(***************************************************************************)
(* Model of the catime catalog: the hourly generator                       *)
(* (scripts/generate_cat.py) that appends to catlist.json and to the       *)
(* monthly shards cats/YYYY-MM.json, and the query side of the CLI         *)
(* (src/catime/cli.py).                                                    *)
(*                                                                         *)
(* A Python str is a sequence of tokens (a token is one character or one   *)
(* literal chunk of a format string), so that concatenation, slicing and   *)
(* startswith are computed.  A dict is a function whose DOMAIN is its key  *)
(* set; a list is a sequence.                                              *)
(***************************************************************************)
EXTENDS Integers, Sequences, FiniteSets, TLC

(***************************************************************************)
(* Bounds of the model.                                                    *)
(***************************************************************************)
\* a run that is not skipped starts only while fewer entries than this were
\* appended since the initial state
MaxNew == 2
\* the wall clock takes the instants 0..MaxTick
MaxTick == 2

(***************************************************************************)
(* Python values.                                                          *)
(***************************************************************************)
\* None in an integer-valued field ("number": None)
NoneInt == -1
\* None in a text-valued field ("url": None, "updated_at": None)
NoneText == <<"None">>

Str(s) == <<s>>

Digits == <<"0", "1", "2", "3", "4", "5", "6", "7", "8", "9">>

IsDigitChar(c) == \E i \in 1..10 : Digits[i] = c

DigitValue(c) == (CHOOSE i \in 1..10 : Digits[i] = c) - 1

RECURSIVE Pow10(_)
Pow10(k) == IF k = 0 THEN 1 ELSE 10 * Pow10(k - 1)

\* "%0wd": n in decimal, zero-padded to width w
Pad(n, w) == [i \in 1..w |-> Digits[((n \div Pow10(w - i)) % 10) + 1]]

\* str.startswith
startswith(s, p) == Len(p) <= Len(s) /\ SubSeq(s, 1, Len(p)) = p

\* s[:n]
Slice(s, n) == SubSeq(s, 1, IF Len(s) < n THEN Len(s) ELSE n)

\* sub in s
Contains(s, sub) ==
    \E i \in 1..(Len(s) + 1) :
        i + Len(sub) - 1 <= Len(s) /\ SubSeq(s, i, i + Len(sub) - 1) = sub

\* str.replace(old, "") and str.replace(old, new) for one-character old
RECURSIVE ReplaceChar(_, _, _)
ReplaceChar(s, old, new) ==
    IF s = <<>> THEN <<>>
    ELSE (IF Head(s) = old THEN new ELSE <<Head(s)>>) \o ReplaceChar(Tail(s), old, new)

\* dict.get(k, default)
Get(d, k, default) == IF k \in DOMAIN d THEN d[k] ELSE default

\* {k: d[k] for k in fields if k in d}
Project(d, fields) == [k \in (DOMAIN d) \cap fields |-> d[k]]

\* {**a, **b}
Merge(a, b) == [k \in (DOMAIN a) \cup (DOMAIN b) |-> IF k \in DOMAIN b THEN b[k] ELSE a[k]]

(***************************************************************************)
(* The wall clock.  Instant t is 2026-01-31 23:05 UTC plus 35 minutes      *)
(* times t, so that consecutive instants share an hour, cross an hour and  *)
(* cross the month boundary.                                               *)
(***************************************************************************)
MinuteOfEpoch(t) == 23 * 60 + 5 + 35 * t

\* datetime.now(timezone.utc) at instant t
DateTime(t) ==
    LET m   == MinuteOfEpoch(t)
        day == m \div 1440
    IN  [year   |-> 2026,
         month  |-> IF day = 0 THEN 1 ELSE 2,
         day    |-> IF day = 0 THEN 31 ELSE day,
         hour   |-> (m % 1440) \div 60,
         minute |-> m % 60]

\* now - timedelta(days=1), within the window of the model
DayBefore(dt) ==
    IF dt.month = 2 /\ dt.day = 1
    THEN [dt EXCEPT !.month = 1, !.day = 31]
    ELSE [dt EXCEPT !.day = dt.day - 1]

\* strftime("%Y-%m-%d")
FormatDate(dt) == Pad(dt.year, 4) \o <<"-">> \o Pad(dt.month, 2) \o <<"-">> \o Pad(dt.day, 2)

\* strftime("%Y-%m-%d %H:")
FormatHourPrefix(dt) == FormatDate(dt) \o <<" ">> \o Pad(dt.hour, 2) \o <<":">>

\* strftime("%Y-%m-%d %H:%M UTC")
FormatTimestamp(dt) == FormatHourPrefix(dt) \o Pad(dt.minute, 2) \o <<" ", "U", "T", "C">>

(***************************************************************************)
(* The text-generation client.  A call either raises or returns a text;    *)
(* the text either is no JSON object or is the JSON object `data`.  In a   *)
(* data dict a value is a text, or NoneText for null; the values of "news" *)
(* and "avoid_list" carry whether they are a list.                         *)
(***************************************************************************)
Raises == [kind |-> "raise"]
NotJson == [kind |-> "text", json |-> FALSE]
Json(d) == [kind |-> "text", json |-> TRUE, data |-> d]
JList(v) == [list |-> TRUE, v |-> v]
JNotList == [list |-> FALSE]

\* the summary answered a dict whose avoid_list is a list
ValidSummary(resp) ==
    /\ resp.kind = "text" /\ resp.json
    /\ "avoid_list" \in DOMAIN resp.data
    /\ resp.data.avoid_list.list

\* parse_ai_response_generic: the parsed dict, or None
ParseNone == [ok |-> FALSE]
parse_ai_response_generic(resp, required_keys) ==
    IF resp.json /\ required_keys \subseteq DOMAIN resp.data
    THEN [ok |-> TRUE, data |-> resp.data]
    ELSE ParseNone

\* bool(v) of a text value
TruthyText(v) == v # <<>> /\ v # NoneText

\* v[:n] raises TypeError on None
Sliceable(v) == v # NoneText

\* "sep".join(parts)
RECURSIVE Join(_, _)
Join(parts, sep) ==
    IF parts = <<>> THEN <<>>
    ELSE IF Len(parts) = 1 THEN parts[1]
    ELSE parts[1] \o sep \o Join(Tail(parts), sep)

\* fetch_news_inspiration: the news list, [] on any failure
fetch_news_inspiration(resp) ==
    IF resp.kind = "raise" THEN <<>>
    ELSE LET result == parse_ai_response_generic(resp, {"news"})
         IN  IF result.ok /\ result.data.news.list
             THEN Slice(result.data.news.v, 5)
             ELSE <<>>

\* format_style_prompt_snippet; picks is the ordered dict as a list of items
format_style_prompt_snippet(picks) ==
    Join([i \in 1..Len(picks) |-> picks[i].prompt], <<", ">>)

\* {k: v['en'] for k, v in style_picks.items()}
StyleNames(picks) ==
    [c \in {picks[i].category : i \in 1..Len(picks)} |->
        (CHOOSE p \in {picks[i] : i \in 1..Len(picks)} : p.category = c).en]

\* the literals of generate_prompt_and_story
FallbackStory == Str("fallback-story")
DefaultTitle == Str("cat-daily")
Original == Str("original")

FallbackPrompt(timestamp) ==
    <<"A cute cat with the date and time '">> \o timestamp
        \o <<"' displayed in the image, high quality, detailed">>

\* the idea prompt without the date and time
IdeaPromptBare(idea, timestamp, style_snippets) == idea \o <<". ">> \o style_snippets

IdeaPrompt(idea, timestamp, style_snippets) ==
    idea \o <<". The date and time '">> \o timestamp
        \o <<"' is visually displayed in the image. ">> \o style_snippets

Returned(d) == [raised |-> FALSE, data |-> d]
Raised == [raised |-> TRUE]

\* generate_prompt_and_story(timestamp, creative_notes); ext holds what the
\* outside world answers: ext.news, ext.idea and ext.render are the three
\* client responses, ext.styles is what pick_random_styles draws
generate_prompt_and_story(timestamp, creative_notes, ext) ==
    LET avoid_list == Get(creative_notes, "avoid_list", <<>>)
        news == fetch_news_inspiration(ext.news)
        style_picks == ext.styles
        style_snippets == format_style_prompt_snippet(style_picks)
        common == [avoid_list |-> avoid_list,
                   news_inspiration |-> news,
                   style_picks |-> StyleNames(style_picks)]
        fallback == Merge(common,
                      [prompt |-> FallbackPrompt(timestamp),
                       story |-> FallbackStory,
                       idea |-> <<>>,
                       title |-> DefaultTitle,
                       inspiration |-> Original])
        r1 == parse_ai_response_generic(ext.idea, {"idea", "story"})
        idea == r1.data.idea
        story == r1.data.story
        title == Get(r1.data, "title", <<>>)
        inspiration == Get(r1.data, "inspiration", Original)
        \* the prints of stage 1 slice inspiration, idea and story
        stage1_raises == \/ (inspiration # Original /\ ~Sliceable(inspiration))
                         \/ ~Sliceable(idea)
                         \/ ~Sliceable(story)
        staged == Merge(common,
                    [story |-> story,
                     idea |-> idea,
                     title |-> IF TruthyText(title) THEN title ELSE DefaultTitle,
                     inspiration |-> inspiration])
        idea_fallback == Merge(staged,
                           [prompt |-> IdeaPrompt(idea, timestamp, style_snippets)])
        r2 == parse_ai_response_generic(ext.render, {"prompt"})
    IN  IF ext.idea.kind = "raise" THEN Returned(fallback)
        ELSE IF ~r1.ok THEN Returned(fallback)
        ELSE IF stage1_raises THEN Returned(fallback)
        ELSE IF ext.render.kind = "raise" THEN Returned(idea_fallback)
        ELSE IF ~r2.ok THEN Returned(idea_fallback)
        ELSE IF ~Sliceable(r2.data.prompt) THEN Returned(idea_fallback)
        ELSE Returned(Merge(staged, [prompt |-> r2.data.prompt]))

(***************************************************************************)
(* The catalog files.  catlist.json and creative_notes.json are records    *)
(* [exists, data]; the shards are a function from the month text of each   *)
(* existing cats/YYYY-MM.json to its list.                                 *)
(***************************************************************************)
NoCatlist == [exists |-> FALSE, data |-> <<>>]
NoNotes == [exists |-> FALSE]
NoShards == <<>>

\* json.loads(catlist_path.read_text()) if catlist_path.exists() else []
LoadCatlist(file) == IF file.exists THEN file.data ELSE <<>>

\* load_monthly_detail(month)
load_monthly_detail(cats, month) == IF month \in DOMAIN cats THEN cats[month] ELSE <<>>

\* load_creative_notes()
load_creative_notes(file) ==
    IF file.exists THEN file.data
    ELSE [avoid_list |-> <<>>, updated_at |-> NoneText]

\* a status read that takes every entry for a successful one
StatusIgnored(c) == "success"

\* c.get("status", "success")
StatusOf(c) == Get(c, "status", "success")

\* the slice timestamp[5:7], the month without its year
MonthOnly(timestamp) == SubSeq(timestamp, 6, 7)

\* timestamp[:7], the month "YYYY-MM"
MonthOf(timestamp) == Slice(timestamp, 7)

\* already_has_cat_this_hour with the prefix taken to the minute, "%Y-%m-%d %H:%M"
already_has_cat_this_minute(file, now) ==
    file.exists /\ \E i \in 1..Len(file.data) :
        /\ StatusOf(file.data[i]) = "success"
        /\ startswith(file.data[i].timestamp, FormatHourPrefix(now) \o Pad(now.minute, 2))

\* already_has_cat_this_hour(now)
already_has_cat_this_hour(file, now) ==
    IF ~file.exists THEN FALSE
    ELSE LET cats == file.data
             hour_prefix == FormatHourPrefix(now)
         IN  \E i \in 1..Len(cats) :
                 StatusOf(cats[i]) = "success" /\ startswith(cats[i].timestamp, hour_prefix)

index_fields == {"number", "timestamp", "url", "model", "status", "error", "title", "inspiration"}
detail_fields == {"number", "prompt", "story", "idea", "title", "inspiration",
                  "news_inspiration", "avoid_list", "style_picks", "comment_id"}

\* bool(entry[k]) for a detail field k
Truthy(k, v) ==
    IF k \in {"prompt", "story", "idea", "title", "inspiration"} THEN TruthyText(v)
    ELSE IF k = "comment_id" THEN v # 0 /\ v # NoneInt
    ELSE DOMAIN v # {}

\* has_detail = any(entry.get(k) for k in detail_fields if k != "number")
has_detail(entry) ==
    \E k \in (detail_fields \ {"number"}) \cap DOMAIN entry : Truthy(k, entry[k])

\* the write of catlist.json that starts from an empty list instead of the file
WriteCatlistAnew(file, entry) ==
    [exists |-> TRUE, data |-> <<Project(entry, index_fields)>>]

\* update_catlist_and_push, the write of catlist.json
WriteCatlist(file, entry) ==
    LET cats == LoadCatlist(file)
        index_entry == Project(entry, index_fields)
    IN  [exists |-> TRUE, data |-> Append(cats, index_entry)]

\* the write of the monthly detail file that puts the new entry first
WriteMonthlyFirst(cats_dir, entry) ==
    IF has_detail(entry)
    THEN LET month == Slice(entry.timestamp, 7)
         IN  [m \in (DOMAIN cats_dir) \cup {month} |->
                 IF m = month
                 THEN <<Project(entry, detail_fields)>> \o load_monthly_detail(cats_dir, month)
                 ELSE cats_dir[m]]
    ELSE cats_dir

\* update_catlist_and_push, the write of the monthly detail file
WriteMonthly(cats_dir, entry) ==
    IF has_detail(entry)
    THEN LET month == MonthOf(entry.timestamp)
             monthly == load_monthly_detail(cats_dir, month)
             detail_entry == Project(entry, detail_fields)
         IN  [m \in (DOMAIN cats_dir) \cup {month} |->
                 IF m = month THEN Append(monthly, detail_entry) ELSE cats_dir[m]]
    ELSE cats_dir

(***************************************************************************)
(* maybe_update_creative_notes                                             *)
(***************************************************************************)
\* the notes are summarised every NotesEvery cats from the last RecentWindow details
NotesEvery == 5
RecentWindow == 10

\* "YYYY-MM" as the number YYYYMM: sorted() of month texts is the order of these
MonthKey(m) ==
    LET ds == SelectSeq(m, IsDigitChar)
    IN  IF ds = <<>> THEN 0
        ELSE LET RECURSIVE val(_)
                 val(k) == IF k = 0 THEN 0 ELSE 10 * val(k - 1) + DigitValue(ds[k])
             IN  val(Len(ds))

HasPrompt(c) == TruthyText(Get(c, "prompt", <<>>))

\* the loop over reversed(months): prepend month after month, newest first,
\* until the details collected hold RecentWindow prompts
RECURSIVE CollectDetails(_, _, _)
CollectDetails(cats_dir, months, all_details) ==
    IF months = {} THEN all_details
    ELSE LET month == CHOOSE m \in months : \A o \in months : MonthKey(o) <= MonthKey(m)
             loaded == load_monthly_detail(cats_dir, month) \o all_details
         IN  IF Len(SelectSeq(loaded, HasPrompt)) >= RecentWindow THEN loaded
             ELSE CollectDetails(cats_dir, months \ {month}, loaded)

\* s[-n:]
LastN(s, n) == IF Len(s) <= n THEN s ELSE SubSeq(s, Len(s) - n + 1, Len(s))

RecentDetails(file, cats_dir) ==
    LET cats == file.data
        months == {MonthOf(cats[i].timestamp) :
                      i \in {j \in 1..Len(cats) : StatusOf(cats[j]) = "success"}}
    IN  LastN(SelectSeq(CollectDetails(cats_dir, months, <<>>), HasPrompt), RecentWindow)

\* notes that extend the old avoid list instead of replacing it
NewNotesExtended(notes, avoid_list, updated) ==
    [avoid_list |-> notes.avoid_list \o avoid_list,
     updated_at |-> FormatTimestamp(DateTime(updated))]

\* the notes maybe_update_creative_notes writes over the old ones
NewNotes(notes, avoid_list, updated) ==
    [avoid_list |-> avoid_list, updated_at |-> FormatTimestamp(DateTime(updated))]

\* the summary call of maybe_update_creative_notes is reached
SummaryReached(cat_number, file, cats_dir) ==
    /\ cat_number % NotesEvery = 0
    /\ file.exists
    /\ RecentDetails(file, cats_dir) # <<>>

\* maybe_update_creative_notes(cat_number): the notes returned and the
\* creative_notes.json left behind; resp is the answer of the summary call and
\* updated the instant of its datetime.now()
maybe_update_creative_notes(cat_number, file, cats_dir, notes_file, resp, updated) ==
    LET notes == load_creative_notes(notes_file)
        keep == [notes |-> notes, file |-> notes_file, called |-> FALSE]
        result == parse_ai_response_generic(resp, {"avoid_list"})
        new == NewNotes(notes, result.data.avoid_list.v, updated)
    IN  IF cat_number % NotesEvery # 0 THEN keep
        ELSE IF ~file.exists THEN keep
        ELSE IF RecentDetails(file, cats_dir) = <<>> THEN keep
        ELSE IF resp.kind = "raise" THEN [keep EXCEPT !.called = TRUE]
        ELSE IF result.ok /\ result.data.avoid_list.list
             THEN [notes |-> new, file |-> [exists |-> TRUE, data |-> new], called |-> TRUE]
             ELSE [keep EXCEPT !.called = TRUE]

(***************************************************************************)
(* main() of generate_cat.py up to the commit.  fs is the working tree     *)
(* [catlist, cats_dir, notes]; ext holds what the outside world answers    *)
(* in this run.                                                            *)
(***************************************************************************)
REPO == "yazelin/catime"
RELEASE_TAG == "cats"

\* the filename of the ImageGenerationRequest plus the extension of the file
ImageFileName(timestamp) ==
    <<"cat_">> \o ReplaceChar(ReplaceChar(timestamp, " ", <<"_">>), ":", <<>>) \o <<".webp">>

\* generate_cat_image: the result dict
generate_cat_image(timestamp, image) ==
    IF image.success
    THEN [file_path |-> ImageFileName(timestamp), model_used |-> image.model_used,
          status |-> "success"]
    ELSE [file_path |-> NoneText, model_used |-> NoneText, status |-> "failed",
          error |-> image.message \o <<" - ">> \o image.error]

\* upload_image_as_release_asset: the download URL
upload_image_as_release_asset(filename) ==
    <<"https://github.com/", REPO, "/releases/download/", RELEASE_TAG, "/">> \o filename

\* a failed entry under another status word
FailedEntryAsError(timestamp, result) ==
    [number |-> NoneInt,
     timestamp |-> timestamp,
     url |-> NoneText,
     model |-> Str("all failed"),
     status |-> "error",
     error |-> result.error]

FailedEntry(timestamp, result) ==
    [number |-> NoneInt,
     timestamp |-> timestamp,
     url |-> NoneText,
     model |-> Str("all failed"),
     status |-> "failed",
     error |-> result.error]

SuccessEntry(next_number, timestamp, prompt_data, image_url, model_used, comment_id) ==
    LET entry == [number |-> next_number,
                  timestamp |-> timestamp,
                  prompt |-> prompt_data.prompt,
                  story |-> prompt_data.story,
                  idea |-> Get(prompt_data, "idea", <<>>),
                  avoid_list |-> Get(prompt_data, "avoid_list", <<>>),
                  title |-> Get(prompt_data, "title", DefaultTitle),
                  inspiration |-> Get(prompt_data, "inspiration", Original),
                  news_inspiration |-> Get(prompt_data, "news_inspiration", <<>>),
                  style_picks |-> Get(prompt_data, "style_picks", <<>>),
                  url |-> image_url,
                  model |-> model_used,
                  status |-> "success"]
    IN  IF comment_id # NoneInt /\ comment_id # 0
        THEN Merge(entry, [comment_id |-> comment_id])
        ELSE entry

\* the files after update_catlist_and_push has written them
WriteEntry(fs, entry) ==
    [fs EXCEPT !.catlist = WriteCatlist(fs.catlist, entry),
               !.cats_dir = WriteMonthly(fs.cats_dir, entry)]

\* the files a run leaves that updates the creative notes before the hour check
NotesBeforeCheck(fs, fs1) == fs1

\* the files a run leaves that returns at the hour check: the check is the
\* first thing main() does, nothing is written before it
SkippedFiles(fs, fs1) == fs

\* the calls of update_catlist_and_push up to its push loop, in the order
\* made: the write of catlist.json, the write of the monthly file, the commit
UpdateSteps(entry) ==
    <<"append">> \o (IF has_detail(entry) THEN <<"detail">> ELSE <<>>) \o <<"commit">>

\* the numbering by the count of successful entries
NextNumberOfSuccesses(cats) ==
    Len(SelectSeq(cats, LAMBDA c : StatusOf(c) = "success")) + 1

\* the numbering len(cats) or 1
NextNumberIsLen(cats) == IF Len(cats) = 0 THEN 1 ELSE Len(cats)

\* next_number = len(cats) + 1
NextNumber(cats) == Len(cats) + 1

\* main() from its first line to the git commit of update_catlist_and_push.
\* step: "skipped" (returned at the hour check), "raised" (an exception left
\* main before anything was appended) or "committed" (the entry is written and
\* committed, the push loop is next).  steps: the calls made, in their order:
\* "check" (already_has_cat_this_hour), "notes" (maybe_update_creative_notes),
\* "prompt" (generate_prompt_and_story), "image" (generate_cat_image), "upload",
\* "comment", then those of update_catlist_and_push.
main(fs, t, updated, ext) ==
    LET now == DateTime(t)
        timestamp == FormatTimestamp(now)
        cats == LoadCatlist(fs.catlist)
        next_number == NextNumber(cats)
        upd == maybe_update_creative_notes(next_number, fs.catlist, fs.cats_dir,
                                           fs.notes, ext.summary, updated)
        fs1 == [fs EXCEPT !.notes = upd.file]
        prompt_data == generate_prompt_and_story(timestamp, upd.notes, ext)
        result == generate_cat_image(timestamp, ext.image)
        image_url == upload_image_as_release_asset(result.file_path)
        comment_id == IF ext.comment.kind = "raise" THEN NoneInt ELSE ext.comment.id
        failed == FailedEntry(timestamp, result)
        entry == SuccessEntry(next_number, timestamp, prompt_data.data, image_url,
                              result.model_used, comment_id)
    IN  IF already_has_cat_this_hour(fs.catlist, now)
        THEN [step |-> "skipped", fs |-> SkippedFiles(fs, fs1), steps |-> <<"check">>]
        ELSE IF prompt_data.raised
        THEN [step |-> "raised", fs |-> fs1, exc |-> "Exception", notes_called |-> upd.called,
              steps |-> <<"check", "notes", "prompt">>]
        ELSE IF result.status = "failed"
        THEN [step |-> "committed", fs |-> WriteEntry(fs1, failed), entry |-> failed,
              next_number |-> next_number, notes_called |-> upd.called,
              steps |-> <<"check", "notes", "prompt", "image">> \o UpdateSteps(failed)]
        ELSE IF ext.upload = "raise"
        THEN [step |-> "raised", fs |-> fs1, exc |-> "CalledProcessError",
              notes_called |-> upd.called,
              steps |-> <<"check", "notes", "prompt", "image", "upload">>]
        ELSE [step |-> "committed", fs |-> WriteEntry(fs1, entry), entry |-> entry,
              next_number |-> next_number, notes_called |-> upd.called,
              steps |-> <<"check", "notes", "prompt", "image", "upload", "comment">>
                            \o UpdateSteps(entry)]

(***************************************************************************)
(* What the outside world answers.                                         *)
(***************************************************************************)
NewsItem == Str("Sapporo holds its snow festival")
Style == [category |-> "art_style", zh |-> Str("zh:ukiyo-e"), en |-> Str("Ukiyo-e"),
          prompt |-> Str("ukiyo-e woodblock print")]

SummaryResponses ==
    {Raises, NotJson, Json([other |-> <<>>]), Json([avoid_list |-> JNotList]),
     Json([avoid_list |-> JList(<<Str("moonlit rooftops")>>)]),
     Json([avoid_list |-> JList(<<Str("neon alleys"), Str("tea houses")>>)])}

NewsResponses ==
    {Raises, NotJson, Json([news |-> JNotList]), Json([news |-> JList(<<NewsItem>>)]),
     Json([news |-> JList(<<Str("n1"), Str("n2"), Str("n3"), Str("n4"), Str("n5"), Str("n6")>>)])}

IdeaFull ==
    Json([idea |-> Str("a cat repairs a clock"), story |-> Str("tick tock"),
          title |-> Str("clockwork"), inspiration |-> NewsItem])
IdeaBare == Json([idea |-> Str("a cat reads a map"), story |-> <<>>])

IdeaResponses ==
    {Raises, NotJson, Json([idea |-> Str("no story")]), IdeaFull, IdeaBare,
     Json([idea |-> Str("a cat bakes"), story |-> Str("warm"), title |-> NoneText,
           inspiration |-> Original]),
     Json([idea |-> Str("a cat sails"), story |-> Str("salt"), inspiration |-> NoneText]),
     Json([idea |-> NoneText, story |-> Str("lost")])}

RenderResponses ==
    {Raises, NotJson, Json([text |-> Str("no prompt key")]),
     Json([prompt |-> Str("a cat repairing a clock, 35mm")]),
     Json([prompt |-> <<>>]), Json([prompt |-> NoneText])}

StyleDraws == {<<>>, <<Style>>}

ImageOk == [success |-> TRUE, model_used |-> Str("gemini-image")]
ImageFailed == [success |-> FALSE, message |-> Str("generation failed"),
                error |-> Str("quota")]

CommentOk == [kind |-> "ok", id |-> 7]
CommentNoId == [kind |-> "ok", id |-> NoneInt]
CommentRaises == [kind |-> "raise"]

\* the text side of a run: all stages answer
TextAllOk ==
    [news |-> Json([news |-> JList(<<NewsItem>>)]), idea |-> IdeaFull,
     render |-> Json([prompt |-> Str("a cat repairing a clock, 35mm")]),
     styles |-> <<Style>>, comment |-> CommentOk]
\* every stage raises
TextAllRaise ==
    [news |-> Raises, idea |-> Raises, render |-> Raises, styles |-> <<>>,
     comment |-> CommentRaises]
\* the render stage answers no JSON
TextRenderBad ==
    [news |-> Raises, idea |-> IdeaBare, render |-> NotJson, styles |-> <<Style>>,
     comment |-> CommentNoId]
\* the render stage answers an empty prompt
TextEmptyPrompt ==
    [news |-> Raises, idea |-> IdeaBare, render |-> Json([prompt |-> <<>>]),
     styles |-> <<>>, comment |-> CommentNoId]

TextSides == {TextAllOk, TextAllRaise, TextRenderBad, TextEmptyPrompt}

\* answers for a run that asks nothing
SkippedInputs == Merge(TextAllRaise, [summary |-> Raises, image |-> ImageFailed, upload |-> "raise"])

(***************************************************************************)
(* The CLI (src/catime/cli.py).  src is where this process reads from:     *)
(* src.local is --local, src.catlist and src.cats_dir are the files (the   *)
(* working tree, or the pushed copy of it), src.catlist_ok and             *)
(* src.detail_ok tell whether the HTTP fetches succeed.  cache is          *)
(* _detail_cache, a function from month to list.                           *)
(***************************************************************************)
\* fetch_detail that takes a cached empty list for a miss
fetch_detail_unless_empty(cache, month, src) ==
    LET details ==
            IF src.local THEN load_monthly_detail(src.cats_dir, month)
            ELSE IF src.detail_ok THEN load_monthly_detail(src.cats_dir, month)
            ELSE <<>>
    IN  IF month \in DOMAIN cache /\ cache[month] # <<>>
        THEN [details |-> cache[month], cache |-> cache, loaded |-> FALSE]
        ELSE [details |-> details,
              cache |-> [m \in (DOMAIN cache) \cup {month} |->
                            IF m = month THEN details ELSE cache[m]],
              loaded |-> TRUE]

\* fetch_detail(month, repo=, local=): the list returned and the cache left;
\* loaded: whether the call has read the file or made the HTTP request
fetch_detail(cache, month, src) ==
    IF month \in DOMAIN cache
    THEN [details |-> cache[month], cache |-> cache, loaded |-> FALSE]
    ELSE LET details ==
                 IF src.local THEN load_monthly_detail(src.cats_dir, month)
                 ELSE IF src.detail_ok THEN load_monthly_detail(src.cats_dir, month)
                 ELSE <<>>
         IN  [details |-> details,
              cache |-> [m \in (DOMAIN cache) \cup {month} |->
                            IF m = month THEN details ELSE cache[m]],
              loaded |-> TRUE]

\* the first detail of the month, whatever its number
AnyDetail(details, cat) == IF details = <<>> THEN 0 ELSE 1

\* next((d for d in details if d.get("number") == cat.get("number")), None),
\* as the position of d, 0 for None
FirstDetail(details, cat) ==
    LET hits == {k \in 1..Len(details) :
                    Get(details[k], "number", NoneInt) = Get(cat, "number", NoneInt)}
    IN  IF hits = {} THEN 0 ELSE CHOOSE k \in hits : \A o \in hits : k <= o

\* enrich_cat(cat, repo=, local=): the dict returned and the cache left
enrich_cat(cache, cat, src) ==
    LET month == Slice(cat.timestamp, 7)
        got == fetch_detail(cache, month, src)
        k == FirstDetail(got.details, cat)
    IN  [cat |-> IF k # 0 /\ DOMAIN got.details[k] # {}
                 THEN Merge(cat, got.details[k])
                 ELSE cat,
         cache |-> got.cache,
         loaded |-> got.loaded]

\* str.isdigit()
isdigit(q) == q # <<>> /\ \A i \in 1..Len(q) : IsDigitChar(q[i])

\* int(q) of a digit string
RECURSIVE IntOf(_)
IntOf(q) == IF q = <<>> THEN 0 ELSE 10 * IntOf(SubSeq(q, 1, Len(q) - 1)) + DigitValue(q[Len(q)])

\* str.zfill(2)
zfill2(q) == IF Len(q) < 2 THEN <<"0">> \o q ELSE q

\* re.match(r"^\d{4}-\d{2}-\d{2}$", q)
IsDateQuery(q) ==
    /\ Len(q) = 10
    /\ \A i \in {1, 2, 3, 4, 6, 7, 9, 10} : IsDigitChar(q[i])
    /\ q[5] = "-" /\ q[8] = "-"

\* re.match(r"^(\d{4}-\d{2}-\d{2})[T ](\d{1,2})$", q)
IsDateHourQuery(q) ==
    /\ Len(q) \in {12, 13}
    /\ IsDateQuery(SubSeq(q, 1, 10))
    /\ q[11] \in {"T", " "}
    /\ isdigit(SubSeq(q, 12, Len(q)))

\* the filter that keeps successful entries only
WithPrefixSuccessful(cats, prefix) ==
    SelectSeq(cats, LAMBDA c : startswith(c.timestamp, prefix)
                                   /\ Get(c, "status", "success") = "success")

\* [c for c in cats if c["timestamp"].startswith(prefix)]
WithPrefix(cats, prefix) == SelectSeq(cats, LAMBDA c : startswith(c.timestamp, prefix))

Today == <<"t", "o", "d", "a", "y">>
Yesterday == <<"y", "e", "s", "t", "e", "r", "d", "a", "y">>
Latest == <<"l", "a", "t", "e", "s", "t">>

\* filter_by_query(cats, query); now is its datetime.now(timezone.utc)
filter_by_query(cats, query, now) ==
    IF query = Today THEN WithPrefix(cats, FormatDate(now))
    ELSE IF query = Yesterday THEN WithPrefix(cats, FormatDate(DayBefore(now)))
    ELSE IF IsDateHourQuery(query)
    THEN WithPrefix(cats, SubSeq(query, 1, 10) \o <<" ">>
                              \o zfill2(SubSeq(query, 12, Len(query))) \o <<":">>)
    ELSE IF IsDateQuery(query) THEN WithPrefix(cats, query)
    ELSE <<>>

\* the index int(query), without the - 1
IndexIsNumber(q) == IntOf(q)

\* idx = int(args.query) - 1
IndexOfQuery(q) == IntOf(q) - 1

\* no index argument of print_cat
NoIndex == 0

\* for cat in matched: print_cat(enrich_cat(cat, **detail_opts))
RECURSIVE PrintMatched(_, _, _, _)
PrintMatched(cache, matched, src, shown) ==
    IF matched = <<>> THEN [shown |-> shown, cache |-> cache]
    ELSE LET e == enrich_cat(cache, Head(matched), src)
         IN  PrintMatched(e.cache, Tail(matched), src,
                          Append(shown, [cat |-> e.cat, index |-> NoIndex]))

\* main() of the CLI without the view subcommand.  args: query (NoneText when
\* absent) and list; shown: the calls of print_cat in order; exit: the exit
\* status; out: which branch answered
cli_main(args, src, now) ==
    LET loaded == src.local \/ (src.catlist_ok /\ src.catlist.exists)
        cats == LoadCatlist(src.catlist)
        nothing == [shown |-> <<>>, cache |-> <<>>]
        idx == IndexOfQuery(args.query)
        last == enrich_cat(<<>>, cats[Len(cats)], src)
        nth == enrich_cat(<<>>, cats[idx + 1], src)
        matched == filter_by_query(cats, args.query, now)
        printed == PrintMatched(<<>>, matched, src, <<>>)
    IN  IF ~loaded THEN Merge(nothing, [exit |-> 1, out |-> "load error"])
        ELSE IF cats = <<>> THEN Merge(nothing, [exit |-> 0, out |-> "no cats"])
        ELSE IF args.list
        THEN [shown |-> [i \in 1..Len(cats) |-> [cat |-> cats[i], index |-> i]],
              cache |-> <<>>, exit |-> 0, out |-> "list"]
        ELSE IF args.query = NoneText THEN Merge(nothing, [exit |-> 0, out |-> "usage"])
        ELSE IF args.query = Latest
        THEN [shown |-> <<[cat |-> last.cat, index |-> Len(cats)]>>,
              cache |-> last.cache, exit |-> 0, out |-> "latest"]
        ELSE IF isdigit(args.query)
        THEN IF idx < 0 \/ idx >= Len(cats)
             THEN Merge(nothing, [exit |-> 1, out |-> "not found"])
             ELSE [shown |-> <<[cat |-> nth.cat, index |-> IntOf(args.query)]>>,
                   cache |-> nth.cache, exit |-> 0, out |-> "number"]
        ELSE IF matched = <<>> THEN Merge(nothing, [exit |-> 1, out |-> "no match"])
        ELSE Merge(printed, [exit |-> 0, out |-> "matched"])

(***************************************************************************)
(* The JSON text of the catalog files.  json.dumps(cats, indent=2,         *)
(* ensure_ascii=False) + "\n" gives a text, a sequence of characters, and  *)
(* json.loads reads one.  The model encodes None by the kind of the field, *)
(* so both directions go by the kind of the value a key holds.             *)
(***************************************************************************)
\* the kind of value under a key of an index or detail record
FieldType(k) ==
    IF k \in {"number", "comment_id"} THEN "int"
    ELSE IF k = "status" THEN "word"
    ELSE IF k \in {"avoid_list", "news_inspiration"} THEN "texts"
    ELSE IF k = "style_picks" THEN "picks"
    ELSE "text"

\* a set of keys as a list, in some order
RECURSIVE KeyList(_)
KeyList(keys) ==
    IF keys = {} THEN <<>>
    ELSE LET k == CHOOSE x \in keys : TRUE IN <<k>> \o KeyList(keys \ {k})

\* the iteration order of a dict whose keys come in the order `order`
KeysInOrder(d, order) ==
    SelectSeq(order, LAMBDA k : k \in DOMAIN d)
        \o KeyList((DOMAIN d) \ {order[i] : i \in 1..Len(order)})

\* the decimal digits of n >= 0
RECURSIVE Decimal(_)
Decimal(n) == IF n < 10 THEN <<Digits[n + 1]>> ELSE Decimal(n \div 10) \o <<Digits[(n % 10) + 1]>>

\* a string body written without any escaping
EscapeNothing(s) == s

\* the body of a JSON string: with ensure_ascii=False only the quote, the
\* backslash and the control characters are escaped
RECURSIVE Escape(_)
Escape(s) ==
    IF s = <<>> THEN <<>>
    ELSE (IF Head(s) = "\"" THEN <<"\\", "\"">>
          ELSE IF Head(s) = "\\" THEN <<"\\", "\\">>
          ELSE IF Head(s) = "\n" THEN <<"\\", "n">>
          ELSE <<Head(s)>>) \o Escape(Tail(s))

dumps_str(s) == <<"\"">> \o Escape(s) \o <<"\"">>

\* the newline and the indentation of indent=2 at a nesting level
Newline(level) == <<"\n">> \o [i \in 1..level |-> "  "]

\* a list or dict of already written items
Container(open, close, items, level) ==
    IF items = <<>> THEN <<open, close>>
    ELSE <<open>> \o Newline(level + 1)
             \o Join(items, <<",">> \o Newline(level + 1))
             \o Newline(level) \o <<close>>

\* json.dumps of one value of a kind at a nesting level; order is the
\* iteration order of the keys of a record
RECURSIVE dumps_value(_, _, _, _)
dumps_value(type, v, order, level) ==
    IF type = "int" THEN (IF v = NoneInt THEN <<"null">> ELSE Decimal(v))
    ELSE IF type = "word" THEN dumps_str(<<v>>)
    ELSE IF type = "text" THEN (IF v = NoneText THEN <<"null">> ELSE dumps_str(v))
    ELSE IF type = "texts"
    THEN Container("[", "]", [i \in 1..Len(v) |-> dumps_str(v[i])], level)
    ELSE IF type \in {"picks", "record"}
    THEN LET keys == KeysInOrder(v, order)
             kind(k) == IF type = "picks" THEN "text" ELSE FieldType(k)
         IN  Container("{", "}",
                 [i \in 1..Len(keys) |->
                     dumps_str(<<keys[i]>>) \o <<":", " ">>
                         \o dumps_value(kind(keys[i]), v[keys[i]], order, level + 1)],
                 level)
    ELSE Container("[", "]",
             [i \in 1..Len(v) |-> dumps_value("record", v[i], order, level + 1)], level)

\* json.dumps(cats, indent=2, ensure_ascii=False) + "\n"
dumps(cats, order) == dumps_value("records", cats, order, 0) \o <<"\n">>

\* json.loads: whitespace between the tokens of the text
IsSpace(c) == c \in {"\n", "  ", " "}

RECURSIVE SkipSpace(_, _)
SkipSpace(text, i) ==
    IF i <= Len(text) /\ IsSpace(text[i]) THEN SkipSpace(text, i + 1) ELSE i

At(text, i) == IF i <= Len(text) THEN text[i] ELSE "EOF"

\* json.JSONDecodeError
DecodeError == [ok |-> FALSE]
Decoded(v, next) == [ok |-> TRUE, v |-> v, next |-> next]

\* the character an escape sequence stands for
Unescape(c) == IF c = "n" THEN "\n" ELSE c

\* the body of a string from position i to its closing quote
RECURSIVE ScanString(_, _, _)
ScanString(text, i, acc) ==
    IF i > Len(text) THEN DecodeError
    ELSE IF text[i] = "\"" THEN Decoded(acc, i + 1)
    ELSE IF text[i] = "\n" THEN DecodeError
    ELSE IF text[i] = "\\"
    THEN IF i + 1 > Len(text) THEN DecodeError
         ELSE ScanString(text, i + 2, Append(acc, Unescape(text[i + 1])))
    ELSE ScanString(text, i + 1, Append(acc, text[i]))

ParseString(text, i) ==
    IF At(text, i) = "\"" THEN ScanString(text, i + 1, <<>>) ELSE DecodeError

\* the digits of a number from position i
RECURSIVE ScanDigits(_, _, _)
ScanDigits(text, i, acc) ==
    IF i <= Len(text) /\ IsDigitChar(text[i]) THEN ScanDigits(text, i + 1, Append(acc, text[i]))
    ELSE IF acc = <<>> THEN DecodeError
    ELSE Decoded(IntOf(acc), i)

RECURSIVE ParseValue(_, _, _)
RECURSIVE ParseItems(_, _, _, _)
RECURSIVE ParseMembers(_, _, _, _)

\* the items of a list after its "[", up to its "]"
ParseItems(type, text, i, acc) ==
    LET item == ParseValue(type, text, SkipSpace(text, i))
        j == SkipSpace(text, item.next)
    IN  IF ~item.ok THEN DecodeError
        ELSE IF At(text, j) = "," THEN ParseItems(type, text, j + 1, Append(acc, item.v))
        ELSE IF At(text, j) = "]" THEN Decoded(Append(acc, item.v), j + 1)
        ELSE DecodeError

\* the members of a dict after its "{", up to its "}"
ParseMembers(type, text, i, acc) ==
    LET key == ParseString(text, SkipSpace(text, i))
        colon == SkipSpace(text, key.next)
        k == key.v[1]
        kind == IF type = "picks" THEN "text" ELSE FieldType(k)
        value == ParseValue(kind, text, SkipSpace(text, colon + 1))
        j == SkipSpace(text, value.next)
        dict == Merge(acc, [x \in {k} |-> value.v])
    IN  IF ~key.ok \/ Len(key.v) # 1 THEN DecodeError
        ELSE IF At(text, colon) # ":" THEN DecodeError
        ELSE IF ~value.ok THEN DecodeError
        ELSE IF At(text, j) = "," THEN ParseMembers(type, text, j + 1, dict)
        ELSE IF At(text, j) = "}" THEN Decoded(dict, j + 1)
        ELSE DecodeError

\* one value of a kind at position i
ParseValue(type, text, i) ==
    LET inner == SkipSpace(text, i + 1)
        str == ParseString(text, i)
    IN  IF type = "int"
        THEN (IF At(text, i) = "null" THEN Decoded(NoneInt, i + 1)
              ELSE ScanDigits(text, i, <<>>))
        ELSE IF type = "text"
        THEN (IF At(text, i) = "null" THEN Decoded(NoneText, i + 1) ELSE str)
        ELSE IF type = "word"
        THEN (IF str.ok /\ Len(str.v) = 1 THEN Decoded(str.v[1], str.next) ELSE DecodeError)
        ELSE IF type \in {"picks", "record"}
        THEN (IF At(text, i) # "{" THEN DecodeError
              ELSE IF At(text, inner) = "}" THEN Decoded(<<>>, inner + 1)
              ELSE ParseMembers(type, text, inner, <<>>))
        ELSE (IF At(text, i) # "[" THEN DecodeError
              ELSE IF At(text, inner) = "]" THEN Decoded(<<>>, inner + 1)
              ELSE ParseItems(IF type = "texts" THEN "text" ELSE "record", text, inner, <<>>))

\* json.loads(text) of a catalog file: the list, or JSONDecodeError
loads(text) ==
    LET parsed == ParseValue("records", text, SkipSpace(text, 1))
    IN  IF parsed.ok /\ SkipSpace(text, parsed.next) = Len(text) + 1
        THEN [ok |-> TRUE, v |-> parsed.v]
        ELSE DecodeError

\* json.loads(path.read_text()) of the generator and of load_local_catlist
ReadCatlist(text) == loads(text)

\* load_monthly_detail: [] when the text does not parse
ReadMonthly(text) == IF loads(text).ok THEN loads(text).v ELSE <<>>

(***************************************************************************)
(* State.                                                                  *)
(***************************************************************************)
VARIABLES
    clock,           \* the last instant the wall clock was read at
    catlist,         \* catlist.json
    cats_dir,        \* cats/YYYY-MM.json
    creative_notes,  \* creative_notes.json
    pc,              \* "idle", or where the running main() stands: "push", "rebase"
    run,             \* the running (or last) main(): its locals and what it met
    result,          \* how the last main() ended
    prior_len,       \* length of the index in the initial state
    done_runs,       \* runs that reached "Done!"
    other_appends,   \* entries appended by runs that did not reach "Done!"
    gen,             \* a call of generate_prompt_and_story: arguments, answers, result
    cli,             \* a CLI process: arguments, sources, what it printed
    io,              \* a catalog file written and read back: records, text, result
    git              \* overlapping runs: the commits on origin and each run's clone

vars == <<clock, catlist, cats_dir, creative_notes, pc, run, result, prior_len,
          done_runs, other_appends, gen, cli, io, git>>

\* no call of generate_prompt_and_story on its own, no CLI process
NoGen == [state |-> "none"]
NoCli == [state |-> "none"]
NoIo == [state |-> "none"]
NoGit == [head |-> 0]

Files == [catlist |-> catlist, cats_dir |-> cats_dir, notes |-> creative_notes]

EmptyFiles == [catlist |-> NoCatlist, cats_dir |-> NoShards, notes |-> NoNotes]

\* the run main() would start on these files reaches the summary call
SummaryDue(fs) ==
    SummaryReached(Len(LoadCatlist(fs.catlist)) + 1, fs.catlist, fs.cats_dir)

\* a failed push followed by the next push at once
RetryAtOnce == "push"

\* where a failed push leads: to the "git pull --rebase" of the loop body
AfterFailedPush == "rebase"

\* a push loop of one attempt more
PushAttemptsPlusOne == 3 + 1

\* the attempts of the push loop: range(3)
PushAttempts == 3

\* status, number, timestamp: the locals of update_catlist_and_push; attempt:
\* its loop variable; steps: the calls the run has made, in their order;
\* pushes, failed_pushes, rebases: the "git push" calls made,
\* those that failed, and the "git pull --rebase" calls that succeeded;
\* called, summary: whether the run made the summary call, and its answer;
\* notes_before: whether creative_notes.json existed when the run started;
\* image: whether the image generator answered with success
NoRun == [status |-> "none", number |-> NoneInt, timestamp |-> <<>>, attempt |-> 0,
          pushes |-> 0, failed_pushes |-> 0, rebases |-> 0,
          called |-> FALSE, summary |-> Raises, notes_before |-> FALSE, steps |-> <<>>,
          image |-> "none"]

\* a working tree three earlier runs have left: a failed run and two
\* successful ones, at the instants -3, -2 and -1
EarlierRuns ==
    LET in1 == Merge(TextAllOk, [summary |-> Raises, image |-> ImageFailed, upload |-> "ok"])
        in2 == Merge(TextAllOk, [summary |-> Raises, image |-> ImageOk, upload |-> "ok"])
        in3 == Merge(TextAllRaise, [summary |-> Raises, image |-> ImageOk, upload |-> "ok"])
        fs1 == main(EmptyFiles, 0 - 3, 0 - 3, in1).fs
        fs2 == main(fs1, 0 - 2, 0 - 2, in2).fs
    IN  main(fs2, 0 - 1, 0 - 1, in3).fs

InitialFiles == {EmptyFiles, EarlierRuns}

\* no run of main() has started; the working tree is fs
InitFiles(fs) ==
    /\ clock = 0
    /\ catlist = fs.catlist
    /\ cats_dir = fs.cats_dir
    /\ creative_notes = fs.notes
    /\ prior_len = Len(LoadCatlist(fs.catlist))
    /\ pc = "idle"
    /\ run = NoRun
    /\ result = "none"
    /\ done_runs = 0
    /\ other_appends = 0

Init ==
    /\ \E fs \in InitialFiles : InitFiles(fs)
    /\ gen = NoGen
    /\ cli = NoCli
    /\ io = NoIo
    /\ git = NoGit

\* main() started at instant t returns at the hour check
MainSkip(t, summary) ==
    /\ pc = "idle"
    /\ \E r \in {main(Files, t, t, Merge(SkippedInputs, [summary |-> summary]))} :
           /\ r.step = "skipped"
           /\ catlist' = r.fs.catlist
           /\ cats_dir' = r.fs.cats_dir
           /\ creative_notes' = r.fs.notes
           /\ run' = [NoRun EXCEPT !.steps = r.steps]
    /\ result' = "skipped"
    /\ clock' = t
    /\ UNCHANGED <<pc, prior_len, done_runs, other_appends, gen, cli, io, git>>

\* what a run records of its summary call
RunNotes(called, summary) ==
    IF called
    THEN [NoRun EXCEPT !.called = TRUE, !.summary = summary,
                       !.notes_before = creative_notes.exists]
    ELSE NoRun

\* main() started at instant t passes the hour check and runs up to the commit
MainRun(t, updated, ext) ==
    /\ pc = "idle"
    /\ Len(LoadCatlist(catlist)) - prior_len < MaxNew
    /\ \E r \in {main(Files, t, updated, ext)} :
           /\ r.step # "skipped"
           /\ catlist' = r.fs.catlist
           /\ cats_dir' = r.fs.cats_dir
           /\ creative_notes' = r.fs.notes
           /\ clock' = updated
           /\ IF r.step = "raised"
              THEN /\ result' = r.exc
                   /\ run' = [RunNotes(r.notes_called, ext.summary) EXCEPT
                                  !.steps = r.steps,
                                  !.image = generate_cat_image(<<>>, ext.image).status]
                   /\ pc' = "idle"
              ELSE /\ result' = "running"
                   /\ run' = [RunNotes(r.notes_called, ext.summary) EXCEPT
                                  !.status = r.entry.status,
                                  !.number = r.entry.number,
                                  !.timestamp = r.entry.timestamp,
                                  !.steps = r.steps,
                                  !.image = generate_cat_image(<<>>, ext.image).status]
                   /\ pc' = "push"
    /\ UNCHANGED <<prior_len, done_runs, other_appends, gen, cli, io, git>>

\* one "git push" of the retry loop; ok is its return code being 0.  After
\* the break update_catlist_and_push returns and main() ends: sys.exit(1) after
\* a failed entry, "Done!" otherwise
GitPush(ok) ==
    /\ pc = "push"
    /\ IF ok
       THEN /\ pc' = "idle"
            /\ run' = [NoRun EXCEPT !.steps = Append(run.steps, "push")]
            /\ IF run.status = "failed"
               THEN /\ result' = "exit1"
                    /\ other_appends' = other_appends + 1
                    /\ UNCHANGED done_runs
               ELSE /\ result' = "done"
                    /\ done_runs' = done_runs + 1
                    /\ UNCHANGED other_appends
       ELSE /\ pc' = AfterFailedPush
            /\ run' = [run EXCEPT !.pushes = @ + 1, !.failed_pushes = @ + 1,
                                  !.steps = Append(@, "push")]
            /\ UNCHANGED <<result, done_runs, other_appends>>
    /\ UNCHANGED <<clock, catlist, cats_dir, creative_notes, prior_len, gen, cli, io, git>>

\* the "git pull --rebase" (check=True) after a failed push, and the end of
\* the loop body: the next attempt, or the else branch of the for loop
GitPullRebase(ok) ==
    /\ pc = "rebase"
    /\ IF ~ok
       THEN /\ pc' = "idle"
            /\ result' = "CalledProcessError"
            /\ other_appends' = other_appends + 1
            /\ run' = [NoRun EXCEPT !.steps = Append(run.steps, "pull")]
       ELSE IF run.attempt + 1 < PushAttempts
       THEN /\ pc' = "push"
            /\ run' = [run EXCEPT !.attempt = @ + 1, !.rebases = @ + 1,
                                  !.steps = Append(@, "pull")]
            /\ UNCHANGED <<result, other_appends>>
       ELSE /\ pc' = "idle"
            /\ result' = "RuntimeError"
            /\ other_appends' = other_appends + 1
            /\ run' = [NoRun EXCEPT !.steps = Append(run.steps, "pull")]
    /\ UNCHANGED <<clock, catlist, cats_dir, creative_notes, prior_len, done_runs,
                   gen, cli, io, git>>

\* the answers and clock readings a run started at t can meet: the summary
\* call and its datetime.now() happen only in a run that reaches them
Summaries(due) == IF due THEN SummaryResponses ELSE {Raises}
UpdateInstants(due, t) == IF due THEN {u \in {t, t + 1} : u <= MaxTick} ELSE {t}

Next ==
    \/ \E t \in clock..MaxTick, s \in Summaries(pc = "idle" /\ SummaryDue(Files)) :
          MainSkip(t, s)
    \/ \E due \in {pc = "idle" /\ SummaryDue(Files)} :
          \E t \in clock..MaxTick, s \in Summaries(due), text \in TextSides,
             i \in {ImageOk, ImageFailed}, u \in {"ok", "raise"} :
             \E updated \in UpdateInstants(due, t) :
                 MainRun(t, updated, Merge(text, [summary |-> s, image |-> i, upload |-> u]))
    \/ \E ok \in BOOLEAN : GitPush(ok)
    \/ \E ok \in BOOLEAN : GitPullRebase(ok)

Spec == Init /\ [][Next]_vars

(***************************************************************************)
(* generate_prompt_and_story on its own: the initial state draws the       *)
(* arguments and the answers of the outside world, the action calls it.    *)
(***************************************************************************)
generator_vars == <<clock, catlist, cats_dir, creative_notes, pc, run, result,
                    prior_len, done_runs, other_appends>>

\* the creative notes main() can pass: those of load_creative_notes
NotesArguments ==
    {load_creative_notes(NoNotes)} \cup
    {NewNotes(load_creative_notes(NoNotes), r.data.avoid_list.v, 0) :
        r \in {q \in SummaryResponses : ValidSummary(q)}}

TextInputs ==
    [news : NewsResponses, idea : IdeaResponses, render : RenderResponses,
     styles : StyleDraws]

InitPrompt ==
    /\ InitFiles(EmptyFiles)
    /\ cli = NoCli
    /\ io = NoIo
    /\ git = NoGit
    /\ \E t \in 0..MaxTick, notes \in NotesArguments, ext \in TextInputs :
           gen = [state |-> "called", timestamp |-> FormatTimestamp(DateTime(t)),
                  creative_notes |-> notes, ext |-> ext]

GeneratePrompt ==
    /\ gen.state = "called"
    /\ gen' = [state |-> "returned", timestamp |-> gen.timestamp,
               creative_notes |-> gen.creative_notes, ext |-> gen.ext,
               out |-> generate_prompt_and_story(gen.timestamp, gen.creative_notes, gen.ext)]
    /\ UNCHANGED <<generator_vars, cli, io, git>>

NextPrompt == GeneratePrompt

SpecPrompt == InitPrompt /\ [][NextPrompt]_vars

(***************************************************************************)
(* The CLI on its own: it reads files the generator has left.              *)
(***************************************************************************)
\* the working trees that up to n runs of main(), each run to its commit,
\* leave behind when started on the initial files
RECURSIVE Histories(_)
Histories(n) ==
    IF n = 0 THEN InitialFiles
    ELSE LET before == Histories(n - 1)
         IN  before \cup
             {main(fs, t, t, Merge(text, [summary |-> Raises, image |-> i, upload |-> "ok"])).fs :
                 fs \in before, t \in 0..MaxTick, text \in {TextAllOk, TextAllRaise},
                 i \in {ImageOk, ImageFailed}}

Queries ==
    {NoneText, Latest, Today, Yesterday,
     <<"0">>, <<"1">>, <<"2">>, <<"0", "4">>, <<"5">>, <<"6">>, <<"7">>, <<"1", "2">>,
     FormatDate(DateTime(0)), FormatDate(DateTime(MaxTick)), FormatDate(DateTime(99)),
     SubSeq(FormatDate(DateTime(0)), 1, 7),
     FormatDate(DateTime(0)) \o <<"T", "2", "3">>,
     FormatDate(DateTime(MaxTick)) \o <<" ", "0">>,
     FormatDate(DateTime(0)) \o <<"T">>,
     <<"c", "a", "t", "s">>}

InitCli ==
    /\ \E fs \in Histories(MaxNew) : InitFiles(fs)
    /\ gen = NoGen
    /\ cli = NoCli
    /\ io = NoIo
    /\ git = NoGit

\* one CLI process, started at instant t
CliMain(args, local, catlist_ok, detail_ok, t) ==
    /\ cli = NoCli
    /\ LET src == [local |-> local, catlist |-> catlist, cats_dir |-> cats_dir,
                   catlist_ok |-> catlist_ok, detail_ok |-> detail_ok]
       IN  \E r \in {cli_main(args, src, DateTime(t))} :
               cli' = [state |-> "exited", args |-> args, now |-> t, local |-> local,
                       catlist_ok |-> catlist_ok, detail_ok |-> detail_ok,
                       shown |-> r.shown, cache |-> r.cache, exit |-> r.exit, out |-> r.out]
    /\ UNCHANGED <<generator_vars, gen, io, git>>

\* the instants that tell runs of a query apart: only today and yesterday
\* read the clock
QueryInstants(q) == IF q \in {Today, Yesterday} THEN 0..MaxTick ELSE {0}

\* --local, or the two kinds of HTTP fetch each succeeding or failing
Sources ==
    {[local |-> TRUE, catlist_ok |-> TRUE, detail_ok |-> TRUE],
     [local |-> FALSE, catlist_ok |-> TRUE, detail_ok |-> TRUE],
     [local |-> FALSE, catlist_ok |-> TRUE, detail_ok |-> FALSE],
     [local |-> FALSE, catlist_ok |-> FALSE, detail_ok |-> FALSE]}

NextCli ==
    \E q \in Queries, list \in BOOLEAN, from \in Sources :
        \E t \in QueryInstants(q) :
            /\ list => q = NoneText
            /\ ~from.catlist_ok => q = Latest
            /\ CliMain([query |-> q, list |-> list], from.local, from.catlist_ok,
                       from.detail_ok, t)

SpecCli == InitCli /\ [][NextCli]_vars

(***************************************************************************)
(* The catalog files on their own: a list of records is written the way    *)
(* update_catlist_and_push writes it and read back by the loaders.         *)
(***************************************************************************)
\* a text with the characters JSON has to escape or could mistake for syntax
HardText == <<"a", "\"", "b", "\\", "n", "\n", ",", " ", "]", "}", ":", "null", "7", "U+8C93">>

\* index records beyond those of the runs of the model
HardIndex ==
    <<[number |-> 12, timestamp |-> FormatTimestamp(DateTime(0)), url |-> HardText,
       model |-> <<"\\", "\\">>, status |-> "success", title |-> HardText,
       inspiration |-> <<>>],
      [number |-> NoneInt, timestamp |-> FormatTimestamp(DateTime(1)), url |-> NoneText,
       model |-> Str("all failed"), status |-> "failed", error |-> <<"\"">>],
      [timestamp |-> <<>>]>>

\* detail records beyond those of the runs of the model
HardDetail ==
    <<[number |-> 0, prompt |-> HardText, story |-> <<"\n", "\n">>, idea |-> <<>>,
       title |-> NoneText, inspiration |-> Original,
       news_inspiration |-> <<HardText, <<>>, <<"\"">>>>, avoid_list |-> <<>>,
       style_picks |-> [art_style |-> HardText, mood |-> <<>>], comment_id |-> 1234567890],
      [number |-> 3, prompt |-> Str("p"), avoid_list |-> <<Str("neon alleys")>>,
       style_picks |-> <<>>]>>

IndexLists ==
    {LoadCatlist(fs.catlist) : fs \in Histories(MaxNew)} \cup {<<>>, HardIndex}

DetailLists ==
    UNION {{fs.cats_dir[m] : m \in DOMAIN fs.cats_dir} : fs \in Histories(MaxNew)}
        \cup {<<>>, HardDetail}

\* iteration orders of the key sets index_fields and detail_fields
KeyOrders ==
    LET keys == KeyList(index_fields \cup detail_fields)
    IN  {keys, [i \in 1..Len(keys) |-> keys[Len(keys) + 1 - i]]}

InitJson ==
    /\ InitFiles(EmptyFiles)
    /\ gen = NoGen
    /\ cli = NoCli
    /\ git = NoGit
    /\ \E order \in KeyOrders :
          \/ \E cats \in IndexLists :
                io = [state |-> "new", file |-> "catlist", records |-> cats, order |-> order]
          \/ \E monthly \in DetailLists :
                io = [state |-> "new", file |-> "monthly", records |-> monthly, order |-> order]

\* path.write_text(json.dumps(records, indent=2, ensure_ascii=False) + "\n")
WriteText ==
    /\ io.state = "new"
    /\ io' = [state |-> "written", file |-> io.file, records |-> io.records,
              order |-> io.order, text |-> dumps(io.records, io.order)]
    /\ UNCHANGED <<generator_vars, gen, cli, git>>

\* the loaders of the generator and of the CLI read the file
ReadText ==
    /\ io.state = "written"
    /\ io' = [state |-> "read", file |-> io.file, records |-> io.records,
              order |-> io.order, text |-> io.text,
              generator |-> IF io.file = "catlist" THEN ReadCatlist(io.text)
                            ELSE [ok |-> TRUE, v |-> ReadMonthly(io.text)],
              cli |-> ReadCatlist(io.text)]
    /\ UNCHANGED <<generator_vars, gen, cli, git>>

NextJson == WriteText \/ ReadText

SpecJson == InitJson /\ [][NextJson]_vars

(***************************************************************************)
(* Overlapping runs.  Each run works in its own clone of the repository;   *)
(* catlist, cats_dir and creative_notes are the files of the pushed        *)
(* branch.  git.head counts the commits pushed; a clone keeps the commit   *)
(* it is based on and the files of its own commit.                         *)
(***************************************************************************)
Runners == {"a", "b"}

NoClone == [pc |-> "none", at |-> 0, base |-> EmptyFiles, tree |-> EmptyFiles, attempt |-> 0,
            result |-> "none", status |-> "none", number |-> NoneInt, timestamp |-> <<>>,
            behind |-> FALSE]

\* the three-way merge of one file: base is the common ancestor, ours the
\* commit being rebased, theirs the pushed branch.  Both sides rewrite the end
\* of the file, so two different changes of one file conflict
Merge3(base, ours, theirs) ==
    IF ours = base THEN [ok |-> TRUE, v |-> theirs]
    ELSE IF theirs = base THEN [ok |-> TRUE, v |-> ours]
    ELSE IF ours = theirs THEN [ok |-> TRUE, v |-> ours]
    ELSE [ok |-> FALSE]

\* a merge of catlist.json that keeps the entries appended on both sides
RebaseCatlistUnion(base, ours, theirs) ==
    [ok |-> TRUE,
     v |-> [exists |-> TRUE,
            data |-> LoadCatlist(theirs)
                        \o SubSeq(LoadCatlist(ours), Len(LoadCatlist(base)) + 1,
                                  Len(LoadCatlist(ours)))]]

\* the rebase of the commit's catlist.json
RebaseCatlist(base, ours, theirs) == Merge3(base, ours, theirs)

\* cats/<month>.json of a tree as a file
ShardFile(dir, m) == IF m \in DOMAIN dir THEN [exists |-> TRUE, data |-> dir[m]]
                     ELSE [exists |-> FALSE]

\* "git pull --rebase" of a clone's commit onto the pushed files: the files
\* of the rebased commit, or a conflict
Rebase(base, ours, theirs) ==
    LET months == (DOMAIN base.cats_dir) \cup (DOMAIN ours.cats_dir) \cup (DOMAIN theirs.cats_dir)
        index == RebaseCatlist(base.catlist, ours.catlist, theirs.catlist)
        notes == Merge3(base.notes, ours.notes, theirs.notes)
        shard(m) == Merge3(ShardFile(base.cats_dir, m), ShardFile(ours.cats_dir, m),
                           ShardFile(theirs.cats_dir, m))
    IN  IF index.ok /\ notes.ok /\ \A m \in months : shard(m).ok
        THEN [ok |-> TRUE,
              fs |-> [catlist |-> index.v,
                      cats_dir |-> [m \in {x \in months : shard(x).v.exists} |-> shard(m).v.data],
                      notes |-> notes.v]]
        ELSE [ok |-> FALSE]

\* the runs the overlap is explored with
OverlapInputs ==
    {Merge(text, [summary |-> Raises, image |-> i, upload |-> "ok"]) :
        text \in {TextAllOk, TextAllRaise}, i \in {ImageOk, ImageFailed}}

InitOverlap ==
    /\ \E fs \in InitialFiles : InitFiles(fs)
    /\ gen = NoGen
    /\ cli = NoCli
    /\ io = NoIo
    /\ git = [head |-> 0, clone |-> [r \in Runners |-> NoClone]]

\* the workflow of run r checks the pushed branch out
Checkout(r) ==
    /\ git.clone[r].pc = "none"
    /\ git' = [git EXCEPT !.clone[r] = [NoClone EXCEPT !.pc = "ready", !.at = git.head,
                                                       !.base = Files, !.tree = Files]]
    /\ UNCHANGED <<generator_vars, gen, cli, io>>

\* main() of run r at instant t, up to the commit
CloneMain(r, t, ext) ==
    /\ git.clone[r].pc = "ready"
    /\ \E m \in {main(git.clone[r].tree, t, t, ext)} :
          git' = [git EXCEPT !.clone[r] =
                     IF m.step = "skipped" THEN [@ EXCEPT !.pc = "ended", !.result = "skipped"]
                     ELSE IF m.step = "raised" THEN [@ EXCEPT !.pc = "ended", !.result = m.exc]
                     ELSE [@ EXCEPT !.pc = "push", !.tree = m.fs,
                                    !.status = m.entry.status,
                                    !.number = m.entry.number,
                                    !.timestamp = m.entry.timestamp,
                                    !.behind = (git.head # git.clone[r].at)]]
    /\ clock' = t
    /\ UNCHANGED <<catlist, cats_dir, creative_notes, pc, run, result, prior_len,
                   done_runs, other_appends, gen, cli, io>>

\* one "git push" of run r: it is rejected when the pushed branch has moved
\* past the commit the clone is based on, and it may fail for other reasons
ClonePush(r, ok) ==
    /\ git.clone[r].pc = "push"
    /\ IF ok /\ git.clone[r].at = git.head
       THEN /\ catlist' = git.clone[r].tree.catlist
            /\ cats_dir' = git.clone[r].tree.cats_dir
            /\ creative_notes' = git.clone[r].tree.notes
            /\ git' = [git EXCEPT
                          !.head = IF git.clone[r].tree = Files THEN @ ELSE @ + 1,
                          !.clone[r] = [@ EXCEPT !.pc = "ended",
                                                 !.result = IF git.clone[r].status = "failed"
                                                            THEN "exit1" ELSE "done"]]
       ELSE /\ git' = [git EXCEPT !.clone[r] = [@ EXCEPT !.pc = "rebase"]]
            /\ UNCHANGED <<catlist, cats_dir, creative_notes>>
    /\ UNCHANGED <<clock, pc, run, result, prior_len, done_runs, other_appends, gen, cli, io>>

\* the "git pull --rebase" (check=True) of run r after a failed push
ClonePullRebase(r, ok) ==
    /\ git.clone[r].pc = "rebase"
    /\ \E rebased \in {Rebase(git.clone[r].base, git.clone[r].tree, Files)} :
          git' = [git EXCEPT !.clone[r] =
                     IF ~ok \/ ~rebased.ok
                     THEN [@ EXCEPT !.pc = "ended", !.result = "CalledProcessError"]
                     ELSE IF @.attempt + 1 < PushAttempts
                     THEN [@ EXCEPT !.pc = "push", !.attempt = @ + 1, !.at = git.head,
                                    !.base = Files, !.tree = rebased.fs]
                     ELSE [@ EXCEPT !.pc = "ended", !.result = "RuntimeError",
                                    !.at = git.head, !.base = Files, !.tree = rebased.fs]]
    /\ UNCHANGED <<generator_vars, gen, cli, io>>

NextOverlap ==
    \/ \E r \in Runners : Checkout(r)
    \/ \E r \in Runners, t \in clock..MaxTick, ext \in OverlapInputs : CloneMain(r, t, ext)
    \/ \E r \in Runners, ok \in BOOLEAN : ClonePush(r, ok)
    \/ \E r \in Runners, ok \in BOOLEAN : ClonePullRebase(r, ok)

SpecOverlap == InitOverlap /\ [][NextOverlap]_vars

(***************************************************************************)
(* The detail side of the CLI on its own: calls of fetch_detail and of     *)
(* enrich_cat within one process, which share _detail_cache.  cli.cache is *)
(* the cache, cli.loads counts the loads of each month, cli.last is the    *)
(* last call with what it returned.                                        *)
(***************************************************************************)
\* the timestamps of two cats, of January and of February
JanuaryStamp == FormatTimestamp(DateTime(0))
FebruaryStamp == FormatTimestamp(DateTime(2))

\* files in which the details have been edited by hand: the detail of cat 1
\* differs from the index in its title, comes after a detail of another
\* number and before a second detail of its own number; cat 2 has its
\* detail in the shard of the wrong month only
EditedFiles ==
    [catlist |->
        [exists |-> TRUE,
         data |-> <<[number |-> 1, timestamp |-> JanuaryStamp, url |-> Str("u1"),
                     model |-> Str("m"), status |-> "success",
                     title |-> Str("index title"), inspiration |-> Original],
                    [number |-> 2, timestamp |-> FebruaryStamp, url |-> Str("u2"),
                     model |-> Str("m"), status |-> "success",
                     title |-> Str("second"), inspiration |-> Original]>>],
     cats_dir |->
        [m \in {MonthOf(JanuaryStamp), MonthOf(FebruaryStamp)} |->
            IF m = MonthOf(JanuaryStamp)
            THEN <<[number |-> 2, prompt |-> Str("of the wrong month")],
                   [number |-> 1, prompt |-> Str("p1"), title |-> Str("detail title"),
                    story |-> Str("s1")],
                   [number |-> 1, prompt |-> Str("a second match")]>>
            ELSE <<[number |-> 1, prompt |-> Str("of another month")]>>],
     notes |-> NoNotes]

\* the months asked for: those of the cats and one without a shard
DetailMonths == {MonthOf(JanuaryStamp), MonthOf(FebruaryStamp), <<"2", "0", "2", "5", "-", "1", "2">>}

\* where a call reads from: the local file, there or not and holding JSON
\* or not, or the HTTP request, answered with 200 or not
DetailSources ==
    {[local |-> TRUE, detail_ok |-> TRUE, present |-> TRUE, parses |-> TRUE],
     [local |-> TRUE, detail_ok |-> TRUE, present |-> TRUE, parses |-> FALSE],
     [local |-> TRUE, detail_ok |-> TRUE, present |-> FALSE, parses |-> TRUE],
     [local |-> FALSE, detail_ok |-> TRUE, present |-> TRUE, parses |-> TRUE],
     [local |-> FALSE, detail_ok |-> FALSE, present |-> TRUE, parses |-> TRUE]}

\* the src of a call
DetailSrc(from) ==
    [local |-> from.local, detail_ok |-> from.detail_ok,
     cats_dir |-> IF from.present THEN cats_dir ELSE NoShards]

\* the load counts after a call for month
CountLoad(counts, month, loaded) ==
    IF ~loaded THEN counts
    ELSE [m \in (DOMAIN counts) \cup {month} |->
             IF m = month THEN Get(counts, month, 0) + 1 ELSE counts[m]]

\* json.loads(p.read_text()) of the local branch raises: nothing catches it
\* in fetch_detail, in enrich_cat or in main, so the process ends with the
\* cache as it was
JSONDecodeError(cache, month, from) ==
    /\ month \notin DOMAIN cache
    /\ from.local /\ from.present /\ ~from.parses
    /\ month \in DOMAIN cats_dir

\* the process after the call for month has raised
ProcessRaised(month) ==
    [state |-> "raised", cache |-> cli.cache,
     loads |-> CountLoad(cli.loads, month, TRUE),
     last |-> [op |-> "raised", month |-> month]]

InitDetail ==
    /\ \E fs \in InitialFiles \cup {EditedFiles} : InitFiles(fs)
    /\ gen = NoGen
    /\ io = NoIo
    /\ git = NoGit
    /\ cli = [state |-> "calls", cache |-> <<>>, loads |-> <<>>, last |-> [op |-> "none"]]

\* one call fetch_detail(month, repo=, local=)
FetchDetail(month, from) ==
    /\ cli.state = "calls"
    /\ \E r \in {fetch_detail(cli.cache, month, DetailSrc(from))} :
          cli' = IF JSONDecodeError(cli.cache, month, from) THEN ProcessRaised(month)
                 ELSE [state |-> "calls", cache |-> r.cache,
                       loads |-> CountLoad(cli.loads, month, r.loaded),
                       last |-> [op |-> "fetch", month |-> month, from |-> from,
                                 returned |-> r.details, loaded |-> r.loaded]]
    /\ UNCHANGED <<generator_vars, gen, io, git>>

\* one call enrich_cat(cat, repo=, local=) on the index entry at position i
EnrichCat(i, from) ==
    /\ cli.state = "calls"
    /\ i \in 1..Len(LoadCatlist(catlist))
    /\ \E r \in {enrich_cat(cli.cache, LoadCatlist(catlist)[i], DetailSrc(from))},
          month \in {MonthOf(LoadCatlist(catlist)[i].timestamp)} :
          cli' = IF JSONDecodeError(cli.cache, month, from) THEN ProcessRaised(month)
                 ELSE [state |-> "calls", cache |-> r.cache,
                       loads |-> CountLoad(cli.loads, month, r.loaded),
                       last |-> [op |-> "enrich", cat |-> LoadCatlist(catlist)[i],
                                 from |-> from, returned |-> r.cat, loaded |-> r.loaded]]
    /\ UNCHANGED <<generator_vars, gen, io, git>>

NextDetail ==
    \/ \E month \in DetailMonths, from \in DetailSources : FetchDetail(month, from)
    \/ \E i \in 1..3, from \in DetailSources : EnrichCat(i, from)

SpecDetail == InitDetail /\ [][NextDetail]_vars

(***************************************************************************)
(* Properties of the generator.                                            *)
(***************************************************************************)
Index == LoadCatlist(catlist)

\* the hour prefix "YYYY-MM-DD HH:" of a timestamp
HourOf(timestamp) == Slice(timestamp, 14)

Successes == {i \in 1..Len(Index) : Index[i].status = "success"}

\* C1: for every hour prefix the index holds at most one entry with status
\* "success" whose timestamp starts with it
C1_OneSuccessPerHour ==
    \A i, j \in Successes :
        HourOf(Index[i].timestamp) = HourOf(Index[j].timestamp) => i = j

\* a run was skipped in an hour that holds a success written after the initial
\* state, and the index holds a failed entry and successes of different hours
C1_Witness ==
    /\ result = "skipped"
    /\ \E i \in Successes : i > prior_len /\ HourOf(Index[i].timestamp) = FormatHourPrefix(DateTime(clock))
    /\ \E i, j \in Successes : i # j
    /\ \E i \in 1..Len(Index) : i > prior_len /\ Index[i].status = "failed"

\* C2: after N runs that reached "Done!" and any number of skipped runs, and
\* no other run that appended, the index is N longer than at the start
C2_LengthAfterSuccessfulRuns ==
    (pc = "idle" /\ other_appends = 0) => Len(Index) = prior_len + done_runs

C2_Witness ==
    /\ pc = "idle" /\ other_appends = 0 /\ done_runs = 2 /\ prior_len > 0
    /\ result = "skipped"

\* C3: the numbers of the entries that have one are strictly increasing in
\* list order
C3_NumbersIncrease ==
    \A i, j \in 1..Len(Index) :
        (i < j /\ Index[i].number # NoneInt /\ Index[j].number # NoneInt)
            => Index[i].number < Index[j].number

\* a failed entry written by a run lies between two numbered entries
C3_Witness ==
    \E i, j, k \in 1..Len(Index) :
        /\ i < j /\ j < k /\ j > prior_len
        /\ Index[i].number # NoneInt /\ Index[j].number = NoneInt /\ Index[k].number # NoneInt

IsAppend(old, new) == Len(new) = Len(old) + 1 /\ SubSeq(new, 1, Len(old)) = old

\* C5: the step that writes the files appends: the old index is a strict
\* prefix of the new one and the new entry is its last element; every shard
\* is left as it was, except that the shard of the entry's month may have the
\* detail entry appended; no other step touches the files
C5_AppendOnly ==
    [][ IF pc = "idle" /\ pc' = "push"
        THEN /\ IsAppend(LoadCatlist(catlist), catlist'.data)
             /\ LET last == catlist'.data[Len(catlist'.data)]
                IN  /\ last.number = run'.number
                    /\ last.timestamp = run'.timestamp
                    /\ last.status = run'.status
             /\ DOMAIN cats_dir \subseteq DOMAIN cats_dir'
             /\ \A m \in DOMAIN cats_dir' :
                    \/ m \in DOMAIN cats_dir /\ cats_dir'[m] = cats_dir[m]
                    \/ /\ m = MonthOf(run'.timestamp)
                       /\ IsAppend(load_monthly_detail(cats_dir, m), cats_dir'[m])
                       /\ cats_dir'[m][Len(cats_dir'[m])].number = run'.number
        ELSE catlist' = catlist /\ cats_dir' = cats_dir ]_vars

\* a run has just appended a detail entry to a shard that held one already
C5_Witness ==
    /\ pc = "push" /\ run.status = "success"
    /\ Len(Index) > 1
    /\ Len(load_monthly_detail(cats_dir, MonthOf(run.timestamp))) > 1

\* C6: every detail entry of shard M has the number of an index entry whose
\* timestamp begins with M, and the two agree on the keys they share
C6_DetailMatchesIndex ==
    \A m \in DOMAIN cats_dir :
        \A k \in 1..Len(cats_dir[m]) :
            \E i \in 1..Len(Index) :
                /\ Index[i].number = cats_dir[m][k].number
                /\ startswith(Index[i].timestamp, m)
                /\ {"number", "title", "inspiration"}
                       \subseteq (DOMAIN Index[i]) \cap (DOMAIN cats_dir[m][k])
                /\ \A f \in (DOMAIN Index[i]) \cap (DOMAIN cats_dir[m][k]) :
                       Index[i][f] = cats_dir[m][k][f]

\* two shards hold details, and the index holds a failed entry too
C6_Witness ==
    /\ Cardinality({m \in DOMAIN cats_dir : cats_dir[m] # <<>>}) > 1
    /\ \E i \in 1..Len(Index) : Index[i].status = "failed"
    /\ \E m \in DOMAIN cats_dir : Len(cats_dir[m]) > 1

InLoop == pc \in {"push", "rebase"}

\* what is left of the push loop decreases with every step of it
LoopMeasure == 2 * run.attempt + (IF pc = "rebase" THEN 1 ELSE 0)

\* the parts of C7 that do not name the exception: "git push" is attempted at
\* most 3 times; a push that succeeds ends the loop and the run; a push is
\* attempted only while fewer than 3 have failed; every step of the loop ends
\* the run or brings the loop nearer its end
C7_BoundedLoop ==
    /\ [](run.pushes <= 3 /\ run.failed_pushes = run.pushes)
    /\ [](pc = "push" => run.pushes < 3)
    /\ [][pc = "push" =>
            \/ pc' = "idle" /\ result' \in {"done", "exit1"}
            \/ pc' = "rebase" /\ run'.pushes = run.pushes + 1]_vars
    /\ [][InLoop => (pc' = "idle" \/ LoopMeasure' > LoopMeasure)]_vars
    /\ [](InLoop => LoopMeasure < 6)

\* C7 as stated: ... and when all 3 pushes have failed the run ends with
\* RuntimeError
C7_ThreeFailuresRaiseRuntimeError ==
    /\ C7_BoundedLoop
    /\ [][(pc = "rebase" /\ run.failed_pushes = 3) =>
            (pc' = "idle" /\ result' = "RuntimeError")]_vars

\* C7 amended: ... and when all 3 pushes have failed the run ends with
\* RuntimeError or, when a "git pull --rebase" fails, with CalledProcessError;
\* RuntimeError is raised only after 3 failed pushes; a failed pull ends the
\* run after fewer pushes too
C7_ThreeFailuresRaise ==
    /\ C7_BoundedLoop
    /\ [][(pc = "rebase" /\ run.failed_pushes = 3) =>
            (pc' = "idle" /\ result' \in {"RuntimeError", "CalledProcessError"})]_vars
    /\ [][(pc = "rebase" /\ result' = "RuntimeError") =>
            (run.failed_pushes = 3 /\ run.rebases = 2)]_vars
    /\ [][(pc = "rebase" /\ run.failed_pushes < 3) =>
            \/ pc' = "idle" /\ result' = "CalledProcessError"
            \/ pc' = "push" /\ run'.rebases = run.rebases + 1]_vars

\* the third push has failed
C7_Witness == pc = "rebase" /\ run.failed_pushes = 3 /\ run.rebases = 2

\* some shard of a month of a successful index entry holds a detail with a prompt
HasRecentDetail ==
    \E i \in Successes :
        \E m \in DOMAIN cats_dir :
            /\ m = Slice(Index[i].timestamp, 7)
            /\ \E k \in 1..Len(cats_dir[m]) :
                   "prompt" \in DOMAIN cats_dir[m][k] /\ TruthyText(cats_dir[m][k].prompt)

\* C9: a step changes creative_notes.json only if it is a run that passes the
\* hour check with index length + 1 a multiple of 5, finds a recent detail and
\* gets a valid avoid_list; the file is then exactly {avoid_list, updated_at}
\* with the list of the answer; every other step leaves the file as it was
C9_NotesFrame ==
    [][ LET started == pc = "idle" /\ result' # "skipped"
            due == (Len(Index) + 1) % 5 = 0 /\ HasRecentDetail
        IN  /\ (started /\ run'.called) <=> (started /\ due)
            /\ IF started /\ due /\ ValidSummary(run'.summary)
               THEN creative_notes' =
                      [exists |-> TRUE,
                       data |-> [avoid_list |-> run'.summary.data.avoid_list.v,
                                 updated_at |-> FormatTimestamp(DateTime(clock'))]]
               ELSE creative_notes' = creative_notes ]_vars

\* a run has replaced notes that existed
C9_Witness ==
    /\ pc = "push" /\ run.called /\ ValidSummary(run.summary) /\ run.notes_before
    /\ creative_notes.data.avoid_list = run.summary.data.avoid_list.v

(***************************************************************************)
(* Properties of generate_prompt_and_story (SpecPrompt).                   *)
(***************************************************************************)
\* the client raised, or its answer is no JSON object with these keys
Unparseable(resp, keys) ==
    \/ resp.kind = "raise"
    \/ ~resp.json
    \/ ~(keys \subseteq DOMAIN resp.data)

NewsFails(ext) ==
    Unparseable(ext.news, {"news"}) \/ ~ext.news.data.news.list

\* the idea stage fails: no parseable answer, or a null that the stage
\* trips over when it slices the values
IdeaFails(ext) ==
    \/ Unparseable(ext.idea, {"idea", "story"})
    \/ ext.idea.data.idea = NoneText
    \/ ext.idea.data.story = NoneText
    \/ ("inspiration" \in DOMAIN ext.idea.data /\ ext.idea.data.inspiration = NoneText)

RenderFails(ext) ==
    Unparseable(ext.render, {"prompt"}) \/ ext.render.data.prompt = NoneText

\* C8: generate_prompt_and_story returns (never raises); a failed news stage
\* leaves the news list empty; a failed idea stage gives the static fallback
\* record, whose prompt contains the timestamp; a failed render stage after a
\* good idea stage gives a prompt built from the idea that contains the
\* timestamp, with the story and the idea of the idea stage
C8_TextFailuresFallBack ==
    gen.state = "returned" =>
        /\ ~gen.out.raised
        /\ DOMAIN gen.out.data = {"prompt", "story", "idea", "title", "inspiration",
                                  "avoid_list", "news_inspiration", "style_picks"}
        /\ NewsFails(gen.ext) => gen.out.data.news_inspiration = <<>>
        /\ IdeaFails(gen.ext) =>
              /\ gen.out.data.prompt = FallbackPrompt(gen.timestamp)
              /\ Contains(gen.out.data.prompt, gen.timestamp)
              /\ gen.out.data.title = Str("cat-daily")
              /\ gen.out.data.inspiration = Str("original")
              /\ gen.out.data.story = FallbackStory
              /\ gen.out.data.idea = <<>>
        /\ (~IdeaFails(gen.ext) /\ RenderFails(gen.ext)) =>
              /\ startswith(gen.out.data.prompt, gen.ext.idea.data.idea)
              /\ Contains(gen.out.data.prompt, gen.timestamp)
              /\ gen.out.data.story = gen.ext.idea.data.story
              /\ gen.out.data.idea = gen.ext.idea.data.idea
        /\ (~IdeaFails(gen.ext) /\ ~RenderFails(gen.ext)) =>
              gen.out.data.prompt = gen.ext.render.data.prompt

\* the news stage and the render stage have raised after a good idea stage
C8_Witness ==
    /\ gen.state = "returned"
    /\ gen.ext.news = Raises /\ gen.ext.render = Raises
    /\ ~IdeaFails(gen.ext)
    /\ gen.out.data.idea # <<>>
    /\ gen.creative_notes.avoid_list # <<>>

(***************************************************************************)
(* Properties of the CLI (SpecCli).                                        *)
(***************************************************************************)
\* the process has exited after loading a non-empty catalog, without --list
CliAnswered ==
    /\ cli.state = "exited"
    /\ cli.local \/ (cli.catlist_ok /\ catlist.exists)
    /\ Index # <<>>
    /\ ~cli.args.list

\* the query strings YYYY-MM-DD: the dates of the calendar of the model
DateStrings == {FormatDate(DateTime(t)) : t \in 0..100}

\* the positions of the index whose timestamp starts with prefix
Matching(prefix) ==
    {i \in 1..Len(Index) : SubSeq(Index[i].timestamp, 1, Len(prefix)) = prefix}

\* the k-th smallest element of a set of positions
Kth(positions, k) ==
    CHOOSE i \in positions : Cardinality({j \in positions : j < i}) = k - 1

\* the dict printed holds every key of the index entry with its value
Shows(printed, entry) ==
    \A f \in DOMAIN entry : f \in DOMAIN printed /\ printed[f] = entry[f]

\* C4: for a query YYYY-MM-DD the entries printed are exactly the index
\* entries whose timestamp starts with the query, in index order, whatever
\* their status
C4_DateQueryExact ==
    (CliAnswered /\ cli.args.query \in DateStrings) =>
        LET hits == Matching(cli.args.query)
        IN  /\ Len(cli.shown) = Cardinality(hits)
            /\ \A k \in 1..Len(cli.shown) : Shows(cli.shown[k].cat, Index[Kth(hits, k)])

\* a date query has printed a failed and a successful entry and left one out
C4_Witness ==
    /\ CliAnswered /\ cli.args.query \in DateStrings
    /\ \E k \in 1..Len(cli.shown) : cli.shown[k].cat.status = "failed"
    /\ \E k \in 1..Len(cli.shown) : cli.shown[k].cat.status = "success"
    /\ Len(cli.shown) < Len(Index)

\* the numbers written in decimal with one or two digits
NumberStrings == {Pad(n, w) : n \in 0..99, w \in 1..2} \ {Pad(n, 1) : n \in 10..99}

NumberOf(q) == CHOOSE n \in 0..99 : q \in {Pad(n, 1), Pad(n, 2)}

\* C10: an all-digit query N prints the entry at position N when
\* 1 <= N <= L and exits with 0; otherwise it prints nothing and exits with
\* 1; the query latest prints the entry at position L
C10_NumberQuery ==
    /\ (CliAnswered /\ cli.args.query \in NumberStrings) =>
          LET n == NumberOf(cli.args.query)
          IN  IF 1 <= n /\ n <= Len(Index)
              THEN /\ Len(cli.shown) = 1
                   /\ Shows(cli.shown[1].cat, Index[n])
                   /\ cli.shown[1].index = n
                   /\ cli.exit = 0
              ELSE cli.shown = <<>> /\ cli.exit = 1
    /\ (CliAnswered /\ cli.args.query = <<"l", "a", "t", "e", "s", "t">>) =>
          /\ Len(cli.shown) = 1
          /\ Shows(cli.shown[1].cat, Index[Len(Index)])
          /\ cli.exit = 0

\* the query 04 has printed the fourth of five entries, with its detail
C10_Witness ==
    /\ CliAnswered /\ cli.args.query = <<"0", "4">>
    /\ Len(Index) = 5
    /\ cli.exit = 0
    /\ "prompt" \in DOMAIN cli.shown[1].cat

C12_OverlapKeepsIndex ==
    \A i, j \in 1..Len(Index) :
        i < j =>
            /\ ~(/\ StatusOf(Index[i]) = "success"
                 /\ StatusOf(Index[j]) = "success"
                 /\ SubSeq(Index[i].timestamp, 1, 14) = SubSeq(Index[j].timestamp, 1, 14))
            /\ ~(Index[i].number # NoneInt /\ Index[i].number = Index[j].number)

\* two runs have passed the hour check on the same index and committed a
\* successful entry for the same hour; one has pushed, the other has met the
\* rejected push and has ended in the rebase
C12_Witness ==
    /\ git.head > 0
    /\ \E r, o \in Runners :
          /\ git.clone[r].result = "done"
          /\ git.clone[o].result = "CalledProcessError"
          /\ git.clone[o].status = "success"
          /\ git.clone[o].number = git.clone[r].number
          /\ SubSeq(git.clone[o].timestamp, 1, 14) = SubSeq(git.clone[r].timestamp, 1, 14)
          /\ ~git.clone[o].behind
          /\ git.clone[o].at < git.head

(***************************************************************************)
(* Properties of one run of the generator (Spec).                          *)
(***************************************************************************)
\* the index holds a successful entry (or one without a status) stamped in
\* the hour of instant t
SuccessInHour(t) ==
    \E i \in 1..Len(Index) :
        /\ ("status" \notin DOMAIN Index[i] \/ Index[i].status = "success")
        /\ SubSeq(Index[i].timestamp, 1, 14)
               = SubSeq(FormatTimestamp(DateTime(t)), 1, 14)

\* C13: a run that finds a successful entry for the current hour changes
\* neither the index nor a shard nor the creative notes, and makes no call
\* after the hour check: no generation, upload, comment, commit or push
C13_SkippedRunIsNoOp ==
    [][(pc = "idle" /\ SuccessInHour(clock')) =>
          /\ catlist' = catlist
          /\ cats_dir' = cats_dir
          /\ creative_notes' = creative_notes
          /\ run'.steps = <<"check">>
          /\ pc' = "idle"
          /\ result' = "skipped"]_vars

\* a run has been skipped that was due to summarise the creative notes
C13_Witness ==
    /\ pc = "idle" /\ result = "skipped"
    /\ run.steps = <<"check">>
    /\ SuccessInHour(clock)
    /\ (Len(Index) + 1) % 5 = 0
    /\ Len(Index) > prior_len

\* the positions of a call in the calls of the run
StepsAt(name) == {i \in 1..Len(run.steps) : run.steps[i] = name}

\* every call a comes before every call b
StepsBefore(a, b) == \A i \in StepsAt(a), j \in StepsAt(b) : i < j

\* C14: the calls of a run come in the order hour check, content generation,
\* append to the index (and to the shard), commit, push; no push before the
\* commit, no commit before the append; between a failed push and the next
\* push there is a "git pull --rebase"
C14_StepOrder ==
    /\ run.steps # <<>> => run.steps[1] = "check"
    /\ \A a \in {"check", "notes", "prompt", "image", "upload", "comment", "append",
                 "detail", "commit"} : Cardinality(StepsAt(a)) <= 1
    /\ StepsBefore("check", "prompt") /\ StepsBefore("prompt", "image")
    /\ StepsBefore("image", "append") /\ StepsBefore("append", "detail")
    /\ StepsBefore("append", "commit") /\ StepsBefore("detail", "commit")
    /\ StepsBefore("commit", "push") /\ StepsBefore("commit", "pull")
    /\ StepsAt("append") # {} => (StepsAt("prompt") # {} /\ StepsAt("image") # {})
    /\ StepsAt("commit") # {} => StepsAt("append") # {}
    /\ StepsAt("push") # {} => StepsAt("commit") # {}
    /\ \A i \in StepsAt("push") : run.steps[i - 1] \in {"commit", "pull"}
    /\ \A i \in StepsAt("pull") : run.steps[i - 1] = "push"
    /\ \A i \in StepsAt("push") : i < Len(run.steps) => run.steps[i + 1] = "pull"
    /\ pc = "push" => (StepsAt("commit") # {} /\ run.steps[Len(run.steps)] \in {"commit", "pull"})
    /\ pc = "rebase" => run.steps[Len(run.steps)] = "push"

\* a run has pushed at the third attempt, after two failed pushes each
\* followed by a "git pull --rebase"
C14_Witness ==
    /\ pc = "idle" /\ result = "done"
    /\ Cardinality(StepsAt("push")) = 3
    /\ Cardinality(StepsAt("pull")) = 2
    /\ StepsAt("detail") # {}

\* C15: a run whose image generation fails appends exactly one index entry,
\* with status failed, number null, url null and the error text, appends to
\* no shard, and ends with a non-zero exit status; every index entry has
\* status success or failed
C15_FailedImageEntry ==
    /\ [](\A i \in 1..Len(Index) :
             "status" \in DOMAIN Index[i] /\ Index[i].status \in {"success", "failed"})
    /\ [][(pc = "idle" /\ run'.image = "failed") =>
             /\ Len(Index') = Len(Index) + 1
             /\ SubSeq(Index', 1, Len(Index)) = Index
             /\ Index'[Len(Index')].status = "failed"
             /\ Index'[Len(Index')].number = NoneInt
             /\ Index'[Len(Index')].url = NoneText
             /\ Index'[Len(Index')].error
                    = ImageFailed.message \o <<" - ">> \o ImageFailed.error
             /\ cats_dir' = cats_dir
             /\ pc' = "push"]_vars
    /\ [][(run.image = "failed" /\ pc # "idle" /\ pc' = "idle") =>
             result' \in {"exit1", "CalledProcessError", "RuntimeError"}]_vars

\* a run whose image generation failed has pushed its entry and exited with 1
C15_Witness ==
    /\ pc = "idle" /\ result = "exit1"
    /\ Len(Index) > prior_len
    /\ Index[Len(Index)].status = "failed"
    /\ DOMAIN cats_dir # {}

\* C17: a run is skipped only when the index holds a successful entry (or one
\* without a status) for the hour: a failed entry for the hour does not block
\* a later run in that hour, which may append a successful entry
C17_FailedDoesNotBlock ==
    [][(pc = "idle" /\ ~SuccessInHour(clock')) => result' # "skipped"]_vars

\* a successful entry has been appended after a failed entry of the same hour
C17_Witness ==
    \E i, j \in 1..Len(Index) :
        /\ prior_len < i /\ i < j
        /\ Index[i].status = "failed" /\ Index[j].status = "success"
        /\ SubSeq(Index[i].timestamp, 1, 14) = SubSeq(Index[j].timestamp, 1, 14)

(***************************************************************************)
(* Numbers and positions (SpecCli: the CLI over the files that sequential  *)
(* runs of the generator leave).                                           *)
(***************************************************************************)
\* C16: every index entry with a number has its 1-based position as its
\* number, and the CLI asked for N prints the entry whose number is N
\* whenever the index has one
C16_NumberIsPosition ==
    /\ \A i \in 1..Len(Index) :
          ("number" \in DOMAIN Index[i] /\ Index[i].number # NoneInt) => Index[i].number = i
    /\ (/\ CliAnswered
        /\ cli.args.query \in NumberStrings
        /\ \E i \in 1..Len(Index) : Index[i].number = NumberOf(cli.args.query)) =>
          /\ Len(cli.shown) = 1
          /\ cli.shown[1].cat.number = NumberOf(cli.args.query)
          /\ cli.exit = 0

\* the CLI asked for 5 has printed cat number 5 from an index that holds
\* failed entries before it
C16_Witness ==
    /\ CliAnswered /\ cli.args.query = <<"5">>
    /\ Len(cli.shown) = 1 /\ cli.shown[1].cat.number = 5
    /\ Cardinality({i \in 1..Len(Index) : Index[i].number = NoneInt}) >= 2

(***************************************************************************)
(* Properties of fetch_detail and enrich_cat (SpecDetail).                 *)
(***************************************************************************)
\* the shard a call for month m reads when the cache has no list for m
ShardRead(m, from) ==
    IF ((from.local /\ from.present) \/ (~from.local /\ from.detail_ok)) /\ m \in DOMAIN cats_dir
    THEN cats_dir[m]
    ELSE <<>>

\* the list of month m a call gets, from the cache held before the call
ListGot(cache, m, from) == IF m \in DOMAIN cache THEN cache[m] ELSE ShardRead(m, from)

\* the number of a record, None when it has none
NumberIn(d) == IF "number" \in DOMAIN d THEN d.number ELSE NoneInt

\* C18: enrich_cat looks in the list of the entry's own month for the
\* first record of equal number; with one, the result has the keys of both
\* and the values of the detail on the keys it has; with none, the result is
\* the index entry; the entry in the index is left as it was
C18_EnrichByMonthAndNumber ==
    [][cli'.last.op = "enrich" =>
          LET cat == cli'.last.cat
              out == cli'.last.returned
              list == ListGot(cli.cache, SubSeq(cat.timestamp, 1, 7), cli'.last.from)
              hits == {k \in 1..Len(list) : NumberIn(list[k]) = NumberIn(cat)}
              d == list[CHOOSE k \in hits : \A o \in hits : k <= o]
          IN  /\ hits = {} => out = cat
              /\ hits # {} =>
                    /\ DOMAIN out = (DOMAIN cat) \cup (DOMAIN d)
                    /\ \A f \in DOMAIN d : out[f] = d[f]
                    /\ \A f \in (DOMAIN cat) \ (DOMAIN d) : out[f] = cat[f]
              /\ catlist' = catlist
              /\ \E i \in 1..Len(Index') : Index'[i] = cat]_vars

\* an entry has been enriched with a detail that follows a detail of another
\* number and whose title differs from the title in the index
C18_Witness ==
    /\ cli.state = "calls" /\ cli.last.op = "enrich"
    /\ "prompt" \in DOMAIN cli.last.returned
    /\ cli.last.returned.title # cli.last.cat.title
    /\ cli.last.returned.url = cli.last.cat.url

\* the month a call is about
MonthAsked(call) ==
    IF call.op = "fetch" THEN call.month ELSE SubSeq(call.cat.timestamp, 1, 7)

\* C19: a call for a month the cache holds returns the cached list and loads
\* nothing, whatever its repo and local arguments and also when the cached
\* list is the empty list of a failed load; no call changes or drops a cache
\* entry; each month is loaded at most once, a load that raises included
C19_CacheLoadsOnce ==
    [][/\ \A m \in DOMAIN cli.cache :
             m \in DOMAIN cli'.cache /\ cli'.cache[m] = cli.cache[m]
       /\ \A m \in DOMAIN cli'.loads : cli'.loads[m] <= 1
       /\ cli'.last.op \in {"fetch", "enrich"} =>
          /\ MonthAsked(cli'.last) \in DOMAIN cli.cache =>
                /\ ~cli'.last.loaded
                /\ cli'.cache = cli.cache
                /\ cli'.loads = cli.loads
                /\ cli'.last.op = "fetch" =>
                      cli'.last.returned = cli.cache[MonthAsked(cli'.last)]
          /\ MonthAsked(cli'.last) \notin DOMAIN cli.cache =>
                /\ cli'.last.loaded
                /\ DOMAIN cli'.cache = (DOMAIN cli.cache) \cup {MonthAsked(cli'.last)}]_vars

\* a month whose load had failed is asked for again, from a source that has
\* the shard, and the cached empty list is returned
C19_Witness ==
    /\ cli.state = "calls" /\ cli.last.op = "fetch"
    /\ ~cli.last.loaded
    /\ cli.last.returned = <<>>
    /\ cli.last.month \in DOMAIN cats_dir
    /\ cats_dir[cli.last.month] # <<>>
    /\ cli.last.from.local /\ cli.last.from.present
    /\ Cardinality(DOMAIN cli.cache) >= 2

====
